---- MODULE Spec2Model ----
(***************************************************************************)
(* Model of backend/controllers/transactionController.js: the request      *)
(* handlers seedDatabase, listTransactions, getStatistics, getCombinedData *)
(* and the reducers getPriceRangeData, getCategoryData over the            *)
(* ProductTransaction collection.                                          *)
(*                                                                         *)
(* JavaScript values are records [t, s, n]: t is the type tag, s the       *)
(* characters of a string, n the value of a number.  A string is the       *)
(* sequence of its characters.  A time value counts whole days since       *)
(* 1970-01-01 UTC (the code's time values are that many times 86400000).   *)
(* Prices are whole numbers.                                               *)
(***************************************************************************)
EXTENDS Integers, Sequences, FiniteSets

VARIABLES store, seeders, call, res, lastSeed

vars == <<store, seeders, call, res, lastSeed>>

----------------------------------------------------------------------------
(* JavaScript values *)

Undefined == [t |-> "undefined", s |-> <<>>, n |-> 0]

NaN == [t |-> "NaN", s |-> <<>>, n |-> 0]

StringValue(chars) == [t |-> "string", s |-> chars, n |-> 0]

NumberValue(k) == [t |-> "number", s |-> <<>>, n |-> k]

\* !v
Falsy(v) ==
  \/ v.t = "undefined"
  \/ v.t = "NaN"
  \/ v.t = "number" /\ v.n = 0
  \/ v.t = "string" /\ v.s = <<>>

Digits == <<"0", "1", "2", "3", "4", "5", "6", "7", "8", "9">>

IsDigit(c) == \E i \in 1..10 : Digits[i] = c

DigitValue(c) == (CHOOSE i \in 1..10 : Digits[i] = c) - 1

IsWhiteSpace(c) == c = " "

RECURSIVE TrimStart(_)
TrimStart(chars) ==
  IF chars # <<>> /\ IsWhiteSpace(Head(chars)) THEN TrimStart(Tail(chars)) ELSE chars

RECURSIVE TrimEnd(_)
TrimEnd(chars) ==
  IF chars # <<>> /\ IsWhiteSpace(chars[Len(chars)])
  THEN TrimEnd(SubSeq(chars, 1, Len(chars) - 1))
  ELSE chars

\* String.prototype.trim
trim(chars) == TrimEnd(TrimStart(chars))

\* the longest prefix of chars made of decimal digits
RECURSIVE DigitPrefix(_)
DigitPrefix(chars) ==
  IF chars # <<>> /\ IsDigit(Head(chars))
  THEN <<Head(chars)>> \o DigitPrefix(Tail(chars))
  ELSE <<>>

RECURSIVE DecimalValue(_, _)
DecimalValue(chars, acc) ==
  IF chars = <<>> THEN acc
  ELSE DecimalValue(Tail(chars), 10 * acc + DigitValue(Head(chars)))

\* parseInt(v) with no radix: leading white space is skipped, an optional sign
\* is read, then the longest run of digits; no digit gives NaN.  (The inputs of
\* this model hold no "x", so the hexadecimal prefix does not arise.)
parseInt(v) ==
  IF v.t = "number" THEN v
  ELSE IF v.t # "string" THEN NaN
  ELSE LET body   == TrimStart(v.s)
           neg    == body # <<>> /\ Head(body) = "-"
           signed == body # <<>> /\ Head(body) \in {"-", "+"}
           rest   == IF signed THEN Tail(body) ELSE body
           ds     == DigitPrefix(rest)
       IN IF ds = <<>> THEN NaN
          ELSE NumberValue((IF neg THEN -1 ELSE 1) * DecimalValue(ds, 0))

\* ToNumber(v), the conversion isNaN and Date.UTC apply to their arguments:
\* the whole trimmed string must be a decimal integer, the empty string is 0.
ToNumber(v) ==
  IF v.t = "number" \/ v.t = "NaN" THEN v
  ELSE IF v.t = "undefined" THEN NaN
  ELSE LET body   == trim(v.s)
           neg    == body # <<>> /\ Head(body) = "-"
           signed == body # <<>> /\ Head(body) \in {"-", "+"}
           rest   == IF signed THEN Tail(body) ELSE body
       IN IF body = <<>> THEN NumberValue(0)
          ELSE IF rest # <<>> /\ DigitPrefix(rest) = rest
               THEN NumberValue((IF neg THEN -1 ELSE 1) * DecimalValue(rest, 0))
               ELSE NaN

isNaN(v) == ToNumber(v).t = "NaN"

----------------------------------------------------------------------------
(* Date.UTC *)

\* ECMAScript DayFromYear(y): the day number of 1 January of year y
DayFromYear(y) ==
  365 * (y - 1970) + ((y - 1969) \div 4) - ((y - 1901) \div 100) + ((y - 1601) \div 400)

InLeapYear(y) == (y % 4 = 0 /\ y % 100 # 0) \/ y % 400 = 0

\* days of the year before month index m (0 = January)
DaysBeforeMonth(y, m) ==
  <<0, 31, 59, 90, 120, 151, 181, 212, 243, 273, 304, 334>>[m + 1]
    + (IF m >= 2 /\ InLeapYear(y) THEN 1 ELSE 0)

\* ECMAScript MakeDay(year, month, date): a month index outside 0..11 carries
\* into the year
MakeDay(year, month, date) ==
  LET ym == year + (month \div 12)
      mn == month % 12
  IN DayFromYear(ym) + DaysBeforeMonth(ym, mn) + date - 1

\* ECMAScript TimeClip limit, 8.64e15 ms, in days
MaxTimeDays == 100000000

\* Date.UTC(year, month, date): a year of 0..99 means 1900 + year; a time past
\* the limit is NaN
DateUTC(year, month, date) ==
  LET y == ToNumber(year)
  IN IF y.t = "NaN" THEN NaN
     ELSE LET yr  == IF 0 <= y.n /\ y.n <= 99 THEN 1900 + y.n ELSE y.n
              day == MakeDay(yr, month, date)
          IN IF day > MaxTimeDays \/ day < -MaxTimeDays THEN NaN
             ELSE NumberValue(day)

----------------------------------------------------------------------------
(* getMonthNumber, getDateRange *)

Return(v) == [threw |-> FALSE, msg |-> "", val |-> v]

Throw(m) == [threw |-> TRUE, msg |-> m, val |-> Undefined]

MonthNames ==
  << <<"J","a","n">>, <<"F","e","b">>, <<"M","a","r">>, <<"A","p","r">>,
     <<"M","a","y">>, <<"J","u","n">>, <<"J","u","l">>, <<"A","u","g">>,
     <<"S","e","p">>, <<"O","c","t">>, <<"N","o","v">>, <<"D","e","c">> >>

\* monthMap[key]; 0 stands for undefined (both are falsy)
monthMap(key) ==
  IF \E i \in 1..12 : MonthNames[i] = key
  THEN CHOOSE i \in 1..12 : MonthNames[i] = key
  ELSE 0

getMonthNumber(month) ==
  IF Falsy(month) \/ month.t # "string" THEN Throw("Invalid month")
  ELSE LET monthNumber == monthMap(trim(month.s))
       IN IF monthNumber = 0 THEN Throw("Invalid month")
          ELSE Return(NumberValue(monthNumber))

getDateRange(monthNumber, year) ==
  IF isNaN(year) THEN Throw("Invalid year")
  ELSE Return([startDate |-> DateUTC(year, monthNumber - 1, 1),
               endDate   |-> DateUTC(year, monthNumber, 1)])

\* getDateRange(getMonthNumber(month), year): the argument is evaluated first
resolve(month, year) ==
  LET m == getMonthNumber(month)
  IN IF m.threw THEN m ELSE getDateRange(m.val.n, year)

----------------------------------------------------------------------------
(* The ProductTransaction collection and its queries *)

\* new Date(Date.UTC(y, m - 1, d)) for a calendar day
Day(y, m, d) == DateUTC(NumberValue(y), m - 1, d)

Doc(price, category, dateOfSale, sold) ==
  [price |-> price, category |-> category, dateOfSale |-> dateOfSale, sold |-> sold]

\* what axios.get may deliver as response.data
Batch1 ==
  << Doc(45,   "electronics", Day(2022, 3, 15), TRUE),
     Doc(50,   "clothing",    Day(2022, 3, 1),  FALSE),
     Doc(51,   "clothing",    Day(2022, 3, 2),  TRUE),
     Doc(0,    "clothing",    Day(2022, 3, 5),  FALSE),
     Doc(100,  "jewelery",    Day(2022, 3, 20), FALSE),
     Doc(300,  "electronics", Day(2022, 4, 1),  TRUE),
     Doc(1001, "jewelery",    Day(2022, 3, 31), TRUE) >>

Batch2 ==
  << Doc(75,   "clothing",    Day(2022, 11, 30), TRUE),
     Doc(101,  "electronics", Day(2022, 12, 1),  FALSE),
     Doc(200,  "jewelery",    Day(2022, 12, 10), TRUE),
     Doc(201,  "jewelery",    Day(2022, 12, 11), FALSE),
     Doc(500,  "electronics", Day(2022, 12, 12), TRUE),
     Doc(501,  "clothing",    Day(2022, 12, 13), FALSE),
     Doc(1000, "clothing",    Day(2022, 12, 31), TRUE),
     Doc(20,   "electronics", Day(2023, 1, 1),   TRUE),
     Doc(200,  "jewelery",    Day(1900, 3, 1),   TRUE) >>

BadBatch ==
  << Doc(45, "electronics", Day(2022, 3, 15), TRUE),
     Doc(60, "clothing",    NaN,              TRUE) >>

Payloads ==
  { [isArray |-> FALSE, data |-> <<>>],
    [isArray |-> TRUE,  data |-> <<>>],
    [isArray |-> TRUE,  data |-> Batch1],
    [isArray |-> TRUE,  data |-> Batch2],
    [isArray |-> TRUE,  data |-> BadBatch] }

\* the deliveries followed when reseed requests run in parallel
ReseedPayloads ==
  { [isArray |-> FALSE, data |-> <<>>],
    [isArray |-> TRUE,  data |-> Batch1],
    [isArray |-> TRUE,  data |-> Batch2] }

\* the schema's dateOfSale validator: isValidDate(value)
isValidDate(date) == date.t # "NaN"

\* Model.insertMany validates every document before it writes any
InsertAccepts(data) == \A i \in 1..Len(data) : isValidDate(data[i].dateOfSale)

RECURSIVE SelectSeq2(_, _, _, _)
SelectSeq2(docs, startDate, endDate, sold) ==
  IF docs = <<>> THEN <<>>
  ELSE LET d    == Head(docs)
           rest == SelectSeq2(Tail(docs), startDate, endDate, sold)
       IN IF /\ d.dateOfSale.n >= startDate.n
             /\ d.dateOfSale.n < endDate.n
             /\ d.sold = sold
          THEN <<d>> \o rest
          ELSE rest

\* find with $lte in place of $lt: the first day of the next month is let in
findInclusive(docs, range, sold) ==
  SelectSeq2(docs, range.startDate,
             [range.endDate EXCEPT !.n = @ + 1], sold)

\* ProductTransaction.find({dateOfSale: {$gte: startDate, $lt: endDate}, sold})
find(docs, range, sold) == SelectSeq2(docs, range.startDate, range.endDate, sold)

\* casting the filter rejects an Invalid Date
CastsFilter(range) == range.startDate.t # "NaN" /\ range.endDate.t # "NaN"

\* the $match stage {dateOfSale: {$gte: startDate, $lt: endDate}}
match(docs, range) ==
  { i \in 1..Len(docs) : /\ docs[i].dateOfSale.n >= range.startDate.n
                         /\ docs[i].dateOfSale.n < range.endDate.n }

\* the $switch with $lt in place of $lte: a boundary price moves up a bucket
priceRangeStrict(price) ==
  IF price < 50 THEN "0-50"
  ELSE IF price < 100 THEN "51-100"
  ELSE IF price < 200 THEN "101-200"
  ELSE IF price < 500 THEN "201-500"
  ELSE IF price < 1000 THEN "501-1000"
  ELSE "1001+"

\* the $switch of the $addFields stage: the first branch whose case holds
priceRange(price) ==
  IF price <= 50 THEN "0-50"
  ELSE IF price <= 100 THEN "51-100"
  ELSE IF price <= 200 THEN "101-200"
  ELSE IF price <= 500 THEN "201-500"
  ELSE IF price <= 1000 THEN "501-1000"
  ELSE IF price > 1000 THEN "1001+"
  ELSE "Unknown"

\* priceRangeMapping[label]; 0 stands for undefined, the slots are numbered from 1
priceRangeMapping(label) ==
  CASE label = "0-50"     -> 1
    [] label = "51-100"   -> 2
    [] label = "101-200"  -> 3
    [] label = "201-500"  -> 4
    [] label = "501-1000" -> 5
    [] label = "1001+"    -> 6
    [] OTHER              -> 0

\* $match, $addFields, $group by priceRange with count: one item per label seen
priceAggregate(docs, range) ==
  LET hit == match(docs, range)
  IN { [priceRange |-> l,
        count |-> Cardinality({ i \in hit : priceRange(docs[i].price) = l })] :
       l \in { priceRange(docs[i].price) : i \in hit } }

\* Array(6).fill(0), then result[index] = item.count for every item
priceResult(items) ==
  [ k \in 1..6 |->
      IF \E it \in items : priceRangeMapping(it.priceRange) = k
      THEN (CHOOSE it \in items : priceRangeMapping(it.priceRange) = k).count
      ELSE 0 ]

\* $match, $group by category with count, $project: one item per category,
\* in no order
categoryAggregate(docs, range) ==
  LET hit == match(docs, range)
  IN { [category |-> c,
        count |-> Cardinality({ i \in hit : docs[i].category = c })] :
       c \in { docs[i].category : i \in hit } }

\* soldItems.reduce((sum, item) => sum + item.price, 0)
RECURSIVE reduce(_, _)
reduce(items, sum) ==
  IF items = <<>> THEN sum ELSE reduce(Tail(items), sum + Head(items).price)

\* listTransactions' map: an unparsable dateOfSale becomes null
sanitize(transactions) ==
  [ i \in 1..Len(transactions) |->
      IF isNaN(transactions[i].dateOfSale)
      THEN [transactions[i] EXCEPT !.dateOfSale = Undefined]
      ELSE transactions[i] ]

----------------------------------------------------------------------------
(* The response object of a request *)

NewResponse == [sent |-> <<>>, calls |-> 0]

\* res.status(status).json(body): the first call sends the response; a later
\* call throws ERR_HTTP_HEADERS_SENT and sends nothing
json(r, status, body) ==
  IF r.sent = <<>>
  THEN [res   |-> [sent |-> <<[status |-> status, body |-> body]>>,
                   calls |-> r.calls + 1],
        threw |-> FALSE]
  ELSE [res |-> [r EXCEPT !.calls = @ + 1], threw |-> TRUE]

ErrorBody(text) == [kind |-> "error", text |-> text]

MessageBody(text) == [kind |-> "message", text |-> text]

\* the res object itself, as a value a handler returns
ResObject == [t |-> "object", s |-> <<>>, n |-> 0]

----------------------------------------------------------------------------
(* State *)

\* the concurrent reseed requests the reseed specification follows
MaxSeeders == 2

Seeders == 1..MaxSeeders

ActivePcs == {"fetch", "delete", "insert"}

IdleSeeder == [pc |-> "idle", data |-> <<>>, overlap |-> FALSE, res |-> NewResponse]

NoRange == [startDate |-> NaN, endDate |-> NaN]

\* fault observes whether a find of this call of getStatistics failed
NoStats ==
  [pc |-> "none", range |-> NoRange, soldItems |-> <<>>, out |-> Return(Undefined),
   fault |-> FALSE]

NoBranch == [pc |-> "none", range |-> NoRange, out |-> Return(Undefined)]

\* the read request in flight.  queries, fault, dirty and overlap observe it:
\* the store queries it issued, whether one of them failed, whether the
\* collection changed and whether a reseed was in progress since it was called.
IdleCall ==
  [op |-> "idle", pc |-> "idle", month |-> Undefined, year |-> Undefined,
   stats |-> NoStats, price |-> NoBranch, category |-> NoBranch,
   out |-> Return(NoRange), unhandled |-> FALSE, queries |-> 0, fault |-> FALSE,
   dirty |-> FALSE, overlap |-> FALSE]

NoSeed == [some |-> FALSE, status |-> 0, data |-> <<>>, overlapped |-> FALSE]

Init ==
  /\ store = <<>>
  /\ seeders = [s \in Seeders |-> IdleSeeder]
  /\ call = IdleCall
  /\ res = NewResponse
  /\ lastSeed = NoSeed

SeedInProgress == \E s \in Seeders : seeders[s].pc \in ActivePcs

\* what a step of a reseed leaves in the observers of the read in flight
Observed(c, changed, seeding) ==
  IF c.pc = "idle" THEN c
  ELSE [c EXCEPT !.dirty = @ \/ changed, !.overlap = @ \/ seeding]

----------------------------------------------------------------------------
(* seedDatabase *)

SeedFinish(s, status, body) ==
  /\ seeders' = [seeders EXCEPT ![s] =
                   [pc |-> "done", data |-> <<>>, overlap |-> FALSE,
                    res |-> json(seeders[s].res, status, body).res]]
  /\ lastSeed' = [some |-> TRUE, status |-> status,
                  data |-> IF status = 200 THEN seeders[s].data ELSE <<>>,
                  overlapped |-> status = 200 /\ seeders[s].overlap]

\* the request arrives and axios.get is issued
SeedCall(s) ==
  /\ seeders[s].pc = "idle"
  /\ seeders' = [t \in Seeders |->
                   IF t = s
                   THEN [IdleSeeder EXCEPT !.pc = "fetch", !.overlap = SeedInProgress]
                   ELSE IF seeders[t].pc \in ActivePcs
                        THEN [seeders[t] EXCEPT !.overlap = TRUE]
                        ELSE seeders[t]]
  /\ call' = Observed(call, FALSE, TRUE)
  /\ UNCHANGED <<store, res, lastSeed>>

\* axios.get settles: lines 7-13
SeedFetched(s, payloads) ==
  /\ seeders[s].pc = "fetch"
  /\ \E ok \in BOOLEAN, response \in payloads :
       IF ~ok
       THEN SeedFinish(s, 500, ErrorBody("Error seeding database"))
       ELSE IF ~response.isArray
            THEN SeedFinish(s, 400, ErrorBody("Invalid data format from API"))
            ELSE /\ seeders' = [seeders EXCEPT ![s].pc = "delete",
                                               ![s].data = response.data]
                 /\ UNCHANGED lastSeed
  /\ call' = Observed(call, FALSE, TRUE)
  /\ UNCHANGED <<store, res>>

\* a deleteMany that removes nothing
SeedDeletedKeeps(s) ==
  /\ seeders[s].pc = "delete"
  /\ \E ok \in BOOLEAN :
       IF ok
       THEN /\ seeders' = [seeders EXCEPT ![s].pc = "insert"]
            /\ UNCHANGED <<store, lastSeed>>
       ELSE /\ SeedFinish(s, 500, ErrorBody("Error seeding database"))
            /\ UNCHANGED store
  /\ call' = Observed(call, FALSE, TRUE)
  /\ UNCHANGED res

\* deleteMany({}) settles: lines 13-14
SeedDeleted(s) ==
  /\ seeders[s].pc = "delete"
  /\ \E ok \in BOOLEAN :
       IF ok
       THEN /\ store' = <<>>
            /\ seeders' = [seeders EXCEPT ![s].pc = "insert"]
            /\ UNCHANGED lastSeed
       ELSE /\ SeedFinish(s, 500, ErrorBody("Error seeding database"))
            /\ UNCHANGED store
  /\ call' = Observed(call, store' # store, TRUE)
  /\ UNCHANGED res

\* insertMany(response.data) settles: lines 14-20
SeedInserted(s) ==
  /\ seeders[s].pc = "insert"
  /\ \E ok \in BOOLEAN :
       IF ok /\ InsertAccepts(seeders[s].data)
       THEN /\ store' = store \o seeders[s].data
            /\ SeedFinish(s, 200, MessageBody("Database seeded successfully"))
       ELSE /\ SeedFinish(s, 500, ErrorBody("Error seeding database"))
            /\ UNCHANGED store
  /\ call' = Observed(call, store' # store, TRUE)
  /\ UNCHANGED res

\* the connection of a finished reseed request is released
SeedReturn(s) ==
  /\ seeders[s].pc = "done"
  /\ seeders' = [seeders EXCEPT ![s] = IdleSeeder]
  /\ UNCHANGED <<store, call, res, lastSeed>>

----------------------------------------------------------------------------
(* Inputs of the read requests *)

MonthInputs ==
  { Undefined,
    StringValue(<<"M", "a", "r">>),
    StringValue(<<" ", "D", "e", "c", " ">>),
    StringValue(<<"X", "y", "z">>) }

\* req.query.year
YearInputs ==
  { Undefined,
    StringValue(<<"a", "b", "c">>),
    StringValue(<<"0">>),
    StringValue(<<"2", "0", "2", "2">>) }

\* the year a caller other than getCombinedData may hand to a reducer
YearArguments == { Undefined, StringValue(<<"a", "b", "c">>), NumberValue(2022) }

\* a read request starts: the observers are reset
Started(op, month, year) ==
  [IdleCall EXCEPT !.op = op, !.pc = "running", !.month = month, !.year = year,
                   !.overlap = SeedInProgress]

Issued(branch) == IF branch.pc \in {"find_sold", "aggregate"} THEN 1 ELSE 0

\* a direct call is over when its function has settled
Settled(c) ==
  IF \/ c.op = "stats" /\ c.stats.pc = "done"
     \/ c.op = "price" /\ c.price.pc = "done"
     \/ c.op = "category" /\ c.category.pc = "done"
  THEN [c EXCEPT !.pc = "done"]
  ELSE c

----------------------------------------------------------------------------
(* listTransactions *)

CallListTransactions ==
  /\ call.pc = "idle"
  /\ call' = [Started("list", Undefined, Undefined) EXCEPT !.queries = 1]
  /\ res' = NewResponse
  /\ UNCHANGED <<store, seeders, lastSeed>>

\* find() settles: lines 26-39
ListFound ==
  /\ call.op = "list" /\ call.pc = "running"
  /\ \E ok \in BOOLEAN :
       IF ok
       THEN /\ res' = json(res, 200, [kind |-> "list", docs |-> sanitize(store)]).res
            /\ call' = [call EXCEPT !.pc = "done"]
       ELSE /\ res' = json(res, 500, ErrorBody("Error fetching transactions")).res
            /\ call' = [call EXCEPT !.pc = "done", !.fault = TRUE]
  /\ UNCHANGED <<store, seeders, lastSeed>>

----------------------------------------------------------------------------
(* getStatistics *)

\* the catch block, lines 69-72; a throw inside it rejects the promise
StatsCatch(branch, r) ==
  LET w == json(r, 500, ErrorBody("Error fetching statistics"))
  IN [branch |-> [branch EXCEPT !.pc = "done",
                                !.out = IF w.threw THEN Throw("ERR_HTTP_HEADERS_SENT")
                                        ELSE Return(Undefined)],
      res |-> w.res]

\* getStatistics up to its first await, lines 44-56
StatsStart(month, year, r) ==
  IF Falsy(month) \/ Falsy(year)
  THEN LET w == json(r, 400, ErrorBody("Month and Year are required"))
       IN IF w.threw THEN StatsCatch(NoStats, w.res)
          ELSE [branch |-> [NoStats EXCEPT !.pc = "done", !.out = Return(ResObject)],
                res |-> w.res]
  ELSE LET range == resolve(month, parseInt(year))
       IN IF range.threw THEN StatsCatch(NoStats, r)
          ELSE [branch |-> [NoStats EXCEPT !.pc = "find_sold", !.range = range.val],
                res |-> r]

\* lines 62-68
StatsRespond(branch, notSoldItems, r) ==
  LET totalSales == reduce(branch.soldItems, 0)
      w == json(r, 200, [kind |-> "statistics",
                         totalSales |-> totalSales,
                         totalSoldItems |-> Len(branch.soldItems),
                         totalNotSoldItems |-> Len(notSoldItems)])
  IN IF w.threw THEN StatsCatch(branch, w.res)
     ELSE [branch |-> [branch EXCEPT !.pc = "done", !.out = Return(Undefined)],
           res |-> w.res]

CallGetStatistics(month, year) ==
  /\ call.pc = "idle"
  /\ LET st == StatsStart(month, year, NewResponse)
     IN /\ call' = Settled([Started("stats", month, year) EXCEPT
                              !.stats = st.branch, !.queries = Issued(st.branch)])
        /\ res' = st.res
  /\ UNCHANGED <<store, seeders, lastSeed>>

\* the find of the sold items settles: lines 53-60
StatsSoldFound ==
  /\ call.pc = "running" /\ call.stats.pc = "find_sold"
  /\ \E ok \in BOOLEAN :
       IF ok /\ CastsFilter(call.stats.range)
       THEN /\ call' = [call EXCEPT
                          !.stats.pc = "find_notsold",
                          !.stats.soldItems = find(store, call.stats.range, TRUE),
                          !.queries = @ + 1]
            /\ UNCHANGED res
       ELSE LET c == StatsCatch(call.stats, res)
            IN /\ call' = Settled([call EXCEPT !.stats = [c.branch EXCEPT !.fault = TRUE],
                                                !.fault = TRUE])
               /\ res' = c.res
  /\ UNCHANGED <<store, seeders, lastSeed>>

\* the find of the unsold items settles: lines 57-72
StatsNotSoldFound ==
  /\ call.pc = "running" /\ call.stats.pc = "find_notsold"
  /\ \E ok \in BOOLEAN :
       LET c == IF ok
                THEN StatsRespond(call.stats, find(store, call.stats.range, FALSE), res)
                ELSE StatsCatch(call.stats, res)
       IN /\ call' = Settled([call EXCEPT !.stats = [c.branch EXCEPT !.fault = ~ok],
                                           !.fault = @ \/ ~ok])
          /\ res' = c.res
  /\ UNCHANGED <<store, seeders, lastSeed>>

----------------------------------------------------------------------------
(* getPriceRangeData *)

\* Array(6).fill(0)
Zero6 == [k \in 1..6 |-> 0]

\* a catch block that logs and throws again
PriceCatchRethrows == Throw("Error in getPriceRangeData")

\* the catch block, lines 144-147
PriceCatch == Return([data |-> Zero6])

\* getPriceRangeData up to its await, lines 106-113
PriceStart(selectedMonth, year) ==
  IF Falsy(selectedMonth) \/ Falsy(year)
  THEN [NoBranch EXCEPT !.pc = "done", !.out = Return([data |-> Zero6])]
  ELSE LET range == resolve(selectedMonth, year)
       IN IF range.threw THEN [NoBranch EXCEPT !.pc = "done", !.out = PriceCatch]
          ELSE [NoBranch EXCEPT !.pc = "aggregate", !.range = range.val]

CallGetPriceRangeData(selectedMonth, year) ==
  /\ call.pc = "idle"
  /\ LET pr == PriceStart(selectedMonth, year)
     IN call' = Settled([Started("price", selectedMonth, year) EXCEPT
                           !.price = pr, !.queries = Issued(pr)])
  /\ res' = NewResponse
  /\ UNCHANGED <<store, seeders, lastSeed>>

\* the aggregate settles: lines 113-147
PriceAggregated ==
  /\ call.pc = "running" /\ call.price.pc = "aggregate"
  /\ \E ok \in BOOLEAN :
       call' = Settled([call EXCEPT
                  !.price.pc = "done",
                  !.price.out =
                     IF ok
                     THEN Return([data |-> priceResult(
                                     priceAggregate(store, call.price.range))])
                     ELSE PriceCatch,
                  !.fault = @ \/ ~ok])
  /\ UNCHANGED <<store, seeders, res, lastSeed>>

----------------------------------------------------------------------------
(* getCategoryData *)

\* the catch block, lines 166-169
CategoryCatch == Return([data |-> {}])

\* getCategoryData up to its await, lines 152-159
CategoryStart(selectedMonth, year) ==
  IF Falsy(selectedMonth) \/ Falsy(year)
  THEN [NoBranch EXCEPT !.pc = "done", !.out = Return([data |-> {}])]
  ELSE LET range == resolve(selectedMonth, year)
       IN IF range.threw THEN [NoBranch EXCEPT !.pc = "done", !.out = CategoryCatch]
          ELSE [NoBranch EXCEPT !.pc = "aggregate", !.range = range.val]

CallGetCategoryData(selectedMonth, year) ==
  /\ call.pc = "idle"
  /\ LET ca == CategoryStart(selectedMonth, year)
     IN call' = Settled([Started("category", selectedMonth, year) EXCEPT
                           !.category = ca, !.queries = Issued(ca)])
  /\ res' = NewResponse
  /\ UNCHANGED <<store, seeders, lastSeed>>

\* the aggregate settles: lines 159-169
CategoryAggregated ==
  /\ call.pc = "running" /\ call.category.pc = "aggregate"
  /\ \E ok \in BOOLEAN :
       call' = Settled([call EXCEPT
                  !.category.pc = "done",
                  !.category.out =
                     IF ok
                     THEN Return([data |-> categoryAggregate(store, call.category.range)])
                     ELSE CategoryCatch,
                  !.fault = @ \/ ~ok])
  /\ UNCHANGED <<store, seeders, res, lastSeed>>

----------------------------------------------------------------------------
(* getCombinedData *)

\* the catch block, lines 193-196
CombinedCatch(r) == json(r, 500, ErrorBody("Error fetching combined data"))

\* lines 174-186: the three calls run to their first await in turn
CallGetCombinedData(month, queryYear) ==
  /\ call.pc = "idle"
  /\ LET selectedMonth == month
         year == parseInt(queryYear)
     IN IF Falsy(selectedMonth) \/ Falsy(year)
        THEN /\ call' = [Started("combined", month, queryYear) EXCEPT !.pc = "done"]
             /\ res' = json(NewResponse, 400,
                            ErrorBody("Month and Year are required")).res
        ELSE LET st == StatsStart(month, queryYear, NewResponse)
                 pr == PriceStart(selectedMonth, year)
                 ca == CategoryStart(selectedMonth, year)
             IN /\ call' = [Started("combined", month, queryYear) EXCEPT
                              !.stats = st.branch, !.price = pr, !.category = ca,
                              !.queries = Issued(st.branch) + Issued(pr) + Issued(ca)]
                /\ res' = st.res
  /\ UNCHANGED <<store, seeders, lastSeed>>

Rejected(branch) == branch.pc = "done" /\ branch.out.threw

\* Promise.all settles: when one promise rejects, or when all three have resolved
AllSettled ==
  \/ Rejected(call.stats) \/ Rejected(call.price) \/ Rejected(call.category)
  \/ call.stats.pc = "done" /\ call.price.pc = "done" /\ call.category.pc = "done"

\* lines 182-196
CombinedJoin ==
  /\ call.op = "combined" /\ call.pc = "running"
  /\ AllSettled
  /\ LET statistics     == call.stats.out.val
         priceRangeData == call.price.out.val
         categoryData   == call.category.out.val
         rejected == \/ Rejected(call.stats) \/ Rejected(call.price)
                     \/ Rejected(call.category)
         w == IF rejected THEN [res |-> res, threw |-> TRUE]
              ELSE json(res, 200, [kind |-> "combined",
                                   statistics |-> statistics,
                                   priceRangeData |-> priceRangeData,
                                   categoryData |-> categoryData])
         c == IF w.threw THEN CombinedCatch(w.res) ELSE w
     IN /\ res' = c.res
        /\ call' = [call EXCEPT !.pc = "done", !.unhandled = c.threw]
  /\ UNCHANGED <<store, seeders, lastSeed>>

\* the connection of a finished read request is released
CallReturn ==
  /\ call.pc = "done"
  /\ call' = IdleCall
  /\ res' = NewResponse
  /\ UNCHANGED <<store, seeders, lastSeed>>

----------------------------------------------------------------------------
(* Specifications *)

Seed(s, payloads) ==
  \/ SeedCall(s)
  \/ SeedFetched(s, payloads)
  \/ SeedDeleted(s)
  \/ SeedInserted(s)
  \/ SeedReturn(s)

\* every handler and reducer, with one reseed request at a time
Next ==
  \/ Seed(1, Payloads)
  \/ CallListTransactions
  \/ ListFound
  \/ \E month \in MonthInputs, year \in YearInputs : CallGetStatistics(month, year)
  \/ StatsSoldFound
  \/ StatsNotSoldFound
  \/ \E month \in MonthInputs, year \in YearArguments : CallGetPriceRangeData(month, year)
  \/ PriceAggregated
  \/ \E month \in MonthInputs, year \in YearArguments : CallGetCategoryData(month, year)
  \/ CategoryAggregated
  \/ \E month \in MonthInputs, year \in YearInputs : CallGetCombinedData(month, year)
  \/ CombinedJoin
  \/ CallReturn

Spec == Init /\ [][Next]_vars

\* reseed requests in parallel, against the handler that reads the whole
\* collection.  An insertMany that fails here fails at the store; the batch the
\* validator rejects and the empty array are followed under Spec.
ReseedNext ==
  \/ \E s \in Seeders : Seed(s, ReseedPayloads)
  \/ CallListTransactions
  \/ ListFound
  \/ CallReturn

ReseedSpec == Init /\ [][ReseedNext]_vars

\* the date range resolver alone, over every month abbreviation
ResolverMonths == { StringValue(MonthNames[i]) : i \in 1..12 }

ResolverYears ==
  { -400, -1, 0, 1, 50, 99, 100, 1600, 1899, 1900, 1970, 1999, 2000, 2022, 2023,
    2024, 2100, 9999 }

\* getDateRange(getMonthNumber(month), year) for an integer year
CallResolve(month, year) ==
  /\ call.pc = "idle"
  /\ call' = [Started("resolve", month, NumberValue(year)) EXCEPT
                !.pc = "done", !.out = resolve(month, NumberValue(year))]
  /\ UNCHANGED <<store, seeders, res, lastSeed>>

ResolverNext ==
  \/ \E month \in ResolverMonths, year \in ResolverYears : CallResolve(month, year)
  \/ CallReturn

ResolverSpec == Init /\ [][ResolverNext]_vars

----------------------------------------------------------------------------
(* What the claims speak of *)

\* one of the twelve month abbreviations, surrounding white space aside
IsMonthAbbreviation(v) ==
  v.t = "string" /\ \E i \in 1..12 : MonthNames[i] = trim(v.s)

\* the month the abbreviation names, 1..12
MonthOf(v) == CHOOSE i \in 1..12 : MonthNames[i] = trim(v.s)

\* a number, or a string that is a decimal integer
IsInteger(v) == v.t \in {"string", "number"} /\ v # StringValue(<<>>) /\ ToNumber(v).t = "number"

IsNonZeroInteger(v) == IsInteger(v) /\ ToNumber(v).n # 0

\* month absent, year absent, month no abbreviation, or year not numeric
Malformed(c) ==
  \/ c.month.t = "undefined"
  \/ c.year.t = "undefined"
  \/ ~IsMonthAbbreviation(c.month)
  \/ ~IsInteger(c.year)

\* the calendar date <<year, month, day>> of a day number (proleptic Gregorian)
CivilFromDays(days) ==
  LET z   == days + 719468
      era == z \div 146097
      doe == z - era * 146097
      yoe == (doe - (doe \div 1460) + (doe \div 36524) - (doe \div 146096)) \div 365
      doy == doe - (365 * yoe + (yoe \div 4) - (yoe \div 100))
      mp  == (5 * doy + 2) \div 153
      d   == doy - ((153 * mp + 2) \div 5) + 1
      m   == IF mp < 10 THEN mp + 3 ELSE mp - 9
      y   == yoe + era * 400 + (IF m <= 2 THEN 1 ELSE 0)
  IN <<y, m, d>>

\* the positions of the documents whose dateOfSale lies in [start, end)
InInterval(docs, range) ==
  { i \in 1..Len(docs) : /\ range.startDate.n <= docs[i].dateOfSale.n
                         /\ docs[i].dateOfSale.n < range.endDate.n }

RECURSIVE SumOfPrices(_, _)
SumOfPrices(docs, positions) ==
  IF positions = {} THEN 0
  ELSE LET i == CHOOSE j \in positions : TRUE
       IN docs[i].price + SumOfPrices(docs, positions \ {i})

\* the Sales Summary of the documents in the interval
SalesSummary(docs, range) ==
  LET inside == InInterval(docs, range)
      sold   == { i \in inside : docs[i].sold }
      unsold == { i \in inside : ~docs[i].sold }
  IN [kind |-> "statistics",
      totalSales |-> SumOfPrices(docs, sold),
      totalSoldItems |-> Cardinality(sold),
      totalNotSoldItems |-> Cardinality(unsold)]

\* the bucket table [0,50], (50,100], (100,200], (200,500], (500,1000], (1000,inf)
BucketLow == <<0, 50, 100, 200, 500, 1000>>

BucketHigh == <<50, 100, 200, 500, 1000>>

InBucket(price, k) ==
  /\ IF k = 1 THEN BucketLow[k] <= price ELSE BucketLow[k] < price
  /\ k < 6 => price <= BucketHigh[k]

\* the interval a finished or running branch resolved for the call
IntervalOf(c) == resolve(c.month, parseInt(c.year)).val

Delivered == res.sent[1]

----------------------------------------------------------------------------
(* Claims *)

\* C1: in a combined-data request that passed validation, no response is
\* written before the three reducers getStatistics, getPriceRangeData and
\* getCategoryData have all completed (stated here for the requests whose store
\* queries all succeed).
CombinedRespondsAfterFanIn ==
  (call.op = "combined" /\ call.stats.pc # "none" /\ ~call.fault /\ res.sent # <<>>)
    => /\ call.stats.pc = "done"
       /\ call.price.pc = "done"
       /\ call.category.pc = "done"

\* C2: a combined-data request with a month abbreviation and a non-zero integer
\* year, against a store that answers every query, delivers one payload
\* {statistics, priceRangeData, categoryData} whose statistics is the Sales
\* Summary and whose other two fields are the results of the two reducers.
CombinedDeliversMergedPayload ==
  ( /\ call.op = "combined" /\ call.pc = "done"
    /\ IsMonthAbbreviation(call.month) /\ IsNonZeroInteger(call.year)
    /\ ~call.fault /\ ~call.dirty )
    => /\ Len(res.sent) = 1
       /\ Delivered.status = 200
       /\ Delivered.body.kind = "combined"
       /\ Delivered.body.statistics = SalesSummary(store, IntervalOf(call))
       /\ Delivered.body.priceRangeData = call.price.out.val
       /\ Delivered.body.categoryData = call.category.out.val

\* C3: when the Sales Summary branch of a combined-data request fails (the
\* resolver rejects the month or year, or a find fails), the client receives
\* the combiner's 500 'Error fetching combined data' and nothing else.
StatisticsFailureYieldsCombinedError ==
  ( /\ call.op = "combined" /\ call.pc = "done" /\ call.stats.pc # "none"
    /\ \/ resolve(call.month, parseInt(call.year)).threw
       \/ call.stats.fault )
    => res.sent = << [status |-> 500,
                      body |-> ErrorBody("Error fetching combined data")] >>

\* C4: a statistics or combined-data request whose month or year is missing or
\* malformed ends with a 4xx response carrying a message, and a 5xx response
\* is produced only when a store query failed.
MalformedQueryGetsClientError ==
  (call.op \in {"stats", "combined"} /\ call.pc = "done")
    => /\ Len(res.sent) >= 1
       /\ Malformed(call) => /\ Delivered.status \in 400..499
                             /\ Delivered.body.kind = "error"
       /\ Delivered.status \in 500..599 => call.fault

\* C5: for a month abbreviation and an integer year, against a store that
\* answers and does not change during the call, getStatistics responds with
\* totalSales = the sum of price over the sold documents of the interval,
\* totalSoldItems = their number, totalNotSoldItems = the number of unsold
\* documents of the interval; the two counts add up to the documents of the
\* interval, and an interval with no document gives 0, 0, 0.
StatisticsAreTheSalesSummary ==
  ( /\ call.op = "stats" /\ call.pc = "done"
    /\ IsMonthAbbreviation(call.month) /\ IsInteger(call.year)
    /\ ~call.fault /\ ~call.dirty )
    => LET inside == InInterval(store, IntervalOf(call))
       IN /\ res.sent = << [status |-> 200,
                            body |-> SalesSummary(store, IntervalOf(call))] >>
          /\ Delivered.body.totalSoldItems + Delivered.body.totalNotSoldItems
               = Cardinality(inside)
          /\ inside = {} => /\ Delivered.body.totalSales = 0
                            /\ Delivered.body.totalSoldItems = 0
                            /\ Delivered.body.totalNotSoldItems = 0

\* C5 witness: March 2022 over the first batch, which holds a sold document on
\* the last day of March and another on the first day of April
StatisticsOfMarchSeen ==
  /\ call.op = "stats" /\ call.pc = "done" /\ ~call.fault /\ ~call.dirty
  /\ call.month = StringValue(<<"M", "a", "r">>)
  /\ call.year = StringValue(<<"2", "0", "2", "2">>)
  /\ store = Batch1
  /\ res.sent = << [status |-> 200,
                    body |-> [kind |-> "statistics", totalSales |-> 1097,
                              totalSoldItems |-> 3, totalNotSoldItems |-> 3]] >>

\* C6: for a month abbreviation and a year, against a store that answers and
\* does not change during the call, getPriceRangeData returns six counts in the
\* order [0,50], (50,100], (100,200], (200,500], (500,1000], (1000,inf): slot k
\* counts the documents of the interval whose price lies in bucket k, every
\* price of the interval lies in exactly one bucket, a price on a boundary is
\* counted in the lower bucket, and the six counts add up to the documents of
\* the interval.
PriceRangeDataIsTheHistogram ==
  ( /\ call.op \in {"price", "combined"} /\ call.pc = "done"
    /\ call.price.pc = "done"
    /\ IsMonthAbbreviation(call.month) /\ IsNonZeroInteger(call.year)
    /\ ~call.fault /\ ~call.dirty )
    => LET data   == call.price.out.val.data
           inside == InInterval(store, IntervalOf(call))
       IN /\ ~call.price.out.threw
          /\ DOMAIN data = 1..6
          /\ \A k \in 1..6 :
               data[k] = Cardinality({ i \in inside : InBucket(store[i].price, k) })
          /\ \A i \in inside :
               Cardinality({ k \in 1..6 : InBucket(store[i].price, k) }) = 1
          /\ \A i \in inside : \A k \in 1..5 :
               store[i].price = BucketHigh[k] => InBucket(store[i].price, k)
          /\ data[1] + data[2] + data[3] + data[4] + data[5] + data[6]
               = Cardinality(inside)

\* C6 witness: March 2022 over the first batch: 0, 45 and the boundary price 50
\* in the first slot, 51 and the boundary price 100 in the second, 1001 in the
\* last
HistogramOfMarchSeen ==
  /\ call.op = "price" /\ call.pc = "done" /\ ~call.fault /\ ~call.dirty
  /\ call.month = StringValue(<<"M", "a", "r">>)
  /\ store = Batch1
  /\ call.price.out.val.data = <<3, 2, 0, 0, 0, 1>>

\* C7: for each of the twelve month abbreviations and every integer year,
\* getDateRange(getMonthNumber(month), year) returns start = UTC midnight of
\* day 1 of that month of that year and end = UTC midnight of day 1 of the
\* following month (January of year + 1 after Dec), with start < end.
DateRangeIsTheCalendarMonth ==
  (call.op = "resolve" /\ call.pc = "done" /\ IsMonthAbbreviation(call.month))
    => LET m == MonthOf(call.month)
           y == call.year.n
           r == call.out
       IN /\ ~r.threw
          /\ r.val.startDate.t = "number" /\ r.val.endDate.t = "number"
          /\ CivilFromDays(r.val.startDate.n) = <<y, m, 1>>
          /\ CivilFromDays(r.val.endDate.n)
               = <<IF m = 12 THEN y + 1 ELSE y, (m % 12) + 1, 1>>
          /\ r.val.startDate.n < r.val.endDate.n

\* C7 for the years outside 0..99, where Date.UTC takes the year as given: the
\* range is the calendar month.
DateRangeOutsideTwoDigitYears ==
  (call.op = "resolve" /\ call.pc = "done" /\ call.year.n \notin 0..99)
    => DateRangeIsTheCalendarMonth

\* C8: getPriceRangeData and getCategoryData never throw; with a falsy month or
\* year they return the all-zero six slots / the empty sequence and issue no
\* store query; when the resolver rejects the month or year, or the store
\* query fails, they return the same default.
ReducersNeverThrow ==
  /\ call.price.pc = "done" => ~call.price.out.threw
  /\ call.category.pc = "done" => ~call.category.out.threw
  /\ (call.op \in {"price", "category"} /\ call.pc = "done")
       => LET out      == IF call.op = "price" THEN call.price.out
                          ELSE call.category.out
              default  == IF call.op = "price" THEN [data |-> [k \in 1..6 |-> 0]]
                          ELSE [data |-> {}]
          IN /\ (Falsy(call.month) \/ Falsy(call.year))
                  => out.val = default /\ call.queries = 0
             /\ (~IsMonthAbbreviation(call.month) \/ ~IsInteger(call.year) \/ call.fault)
                  => out.val = default

\* C8 witness: the aggregate of getPriceRangeData failed over a store that
\* holds documents of the month, and the caller got the six zeros
HistogramDefaultAfterStoreFailure ==
  /\ call.op = "price" /\ call.pc = "done" /\ call.fault
  /\ call.queries = 1
  /\ call.month = StringValue(<<"M", "a", "r">>)
  /\ store = Batch1
  /\ call.price.out = Return([data |-> <<0, 0, 0, 0, 0, 0>>])

\* C9 as stated: a read that overlaps no reseed observes the batch of the last
\* finished reseed.
QuietReadSeesLastReseed ==
  ( /\ call.op = "list" /\ call.pc = "done" /\ ~call.fault /\ ~call.overlap
    /\ lastSeed.some /\ lastSeed.status = 200 )
    => res.sent = << [status |-> 200,
                      body |-> [kind |-> "list", docs |-> sanitize(lastSeed.data)]] >>

\* C9 as amended: a read that overlaps no reseed, after a last finished reseed
\* that succeeded and overlapped no other reseed, observes exactly the batch of
\* that reseed.
QuietReadSeesLastSoleReseed ==
  ( /\ call.op = "list" /\ call.pc = "done" /\ ~call.fault /\ ~call.overlap
    /\ lastSeed.some /\ lastSeed.status = 200 /\ ~lastSeed.overlapped )
    => res.sent = << [status |-> 200,
                      body |-> [kind |-> "list", docs |-> sanitize(lastSeed.data)]] >>

\* C9 witness: the interleaving the claim announces.  A reseed has succeeded
\* with a non-empty batch, a later reseed has deleted and not yet inserted its
\* own non-empty batch, and a read that ran in between got an empty list.
ReadBetweenDeleteAndInsert ==
  /\ call.op = "list" /\ call.pc = "done" /\ ~call.fault /\ call.overlap
  /\ lastSeed.some /\ lastSeed.status = 200 /\ lastSeed.data # <<>>
  /\ \E s \in Seeders : seeders[s].pc = "insert" /\ seeders[s].data # <<>>
  /\ \A s \in Seeders : seeders[s].pc \in {"idle", "insert"}
  /\ store = <<>>
  /\ res.sent = << [status |-> 200, body |-> [kind |-> "list", docs |-> <<>>]] >>

\* C10: every handler writes exactly one response: a finished handler has
\* written one, and no handler calls json on a response that was already sent.
EveryHandlerWritesOnce ==
  /\ res.calls <= 1
  /\ (call.op \in {"list", "stats", "combined"} /\ call.pc = "done")
       => Len(res.sent) = 1 /\ res.calls = 1
  /\ \A s \in Seeders :
       /\ seeders[s].res.calls <= 1
       /\ seeders[s].pc = "done"
            => Len(seeders[s].res.sent) = 1 /\ seeders[s].res.calls = 1

====
